---------------------------- MODULE Spec2Model ----------------------------
(***************************************************************************)
(* Model of the Anzen runtime's reference-counted object                   *)
(* (Sources/Runtime/runtime.cc, Sources/Runtime/include/runtime.h).        *)
(*                                                                         *)
(* The program state is one azn_gc_object_t record, the C heap it points   *)
(* into (blocks handed out by malloc, given back by free) and the size_t   *)
(* cell that holds the reference count.  The three exported functions are  *)
(* the actions; a caller that owns the record calls them one at a time.    *)
(* The code checks nothing, so neither do the actions: the caller may      *)
(* retain or release at any time after init.  Whether the caller has kept  *)
(* to the documented contract is recorded in `valid`.                      *)
(*                                                                         *)
(* Besides the program state the model keeps an observer's record of what  *)
(* the calls did: how often each function was called, how often the        *)
(* destructor ran, which allocator calls were made, and the sequence of    *)
(* external calls (malloc / destructor / free) made by the latest call.    *)
(*                                                                         *)
(* Specifications:                                                         *)
(*   Spec             one caller, whole calls, any order of calls          *)
(*   SpecWrap         as Spec, with enough retain calls to wrap the count  *)
(*   SpecOutOfMemory  as Spec, with a malloc that may return nullptr       *)
(*   SpecOwner        one caller keeping the contract, step by step, fair  *)
(*   SpecReentrant    one caller, with a destructor that calls retain      *)
(*   SpecThreads      two unsynchronized threads, step by step             *)
(***************************************************************************)
EXTENDS Integers, Naturals, Sequences, FiniteSets, TLC

(***************************************************************************)
(* Bounds of the model.                                                    *)
(***************************************************************************)
\* Width of size_t in bits (64 in the build; the arithmetic is the same).
CounterBits == 3
\* Number of heap addresses malloc can hand out.
NumAddrs == 3
\* At most this many retain calls / release calls in one run.
MaxRetains == 3
MaxReleases == 5
\* Payload sizes passed to init are 0 .. MaxSize.
MaxSize == 2
\* Number of distinct non-null destructor functions.
NumDestructors == 2

(***************************************************************************)
(* Values.                                                                 *)
(***************************************************************************)
\* nullptr: the null data pointer and the null function pointer.
NULL == 0
\* Non-null data pointers.
Addrs == 1..NumAddrs
Pointers == {NULL} \cup Addrs
\* Values of void (*destructor)(void*): nullptr or one of the functions.
Destructors == {NULL} \cup (1..NumDestructors)
\* Values of size_t.
Modulus == 2 ^ CounterBits
Words == 0..(Modulus - 1)
Sizes == 0..MaxSize

\* A heap block: never handed out, handed out, or given back.
BlockStates == {"unallocated", "live", "freed"}

VARIABLES
    object,          \* the azn_gc_object_t record: value, destructor, count
    heap,            \* address -> [st: state of the block, size: its size]
    mem,             \* address -> the size_t stored there
    pc,              \* "uninit" (record not populated), "ready", "aborted"
    retains,         \* number of azn_gc_object_retain calls made
    releases,        \* number of azn_gc_object_release calls made
    destructorCalls, \* number of times the destructor was invoked
    mallocs,         \* number of malloc calls made
    frees,           \* number of free calls made
    lastOp,          \* the latest call: "none", "init", "retain", "release"
    events,          \* the external calls made by the latest call, in order
    valid,           \* TRUE while every call made respected the contract
    tpc,             \* thread -> where the thread is inside retain / release
    reg,             \* thread -> the count the thread loaded
    lost             \* TRUE once a store overwrote another thread's update

\* The threads of the multi-threaded specifications, and their state.
Threads == {"t1", "t2"}
threadVars == <<tpc, reg, lost>>

vars == <<object, heap, mem, pc, retains, releases, destructorCalls,
          mallocs, frees, lastOp, events, valid, tpc, reg, lost>>

(***************************************************************************)
(* The allocator.                                                          *)
(***************************************************************************)
\* sizeof(size_t), in bytes of the model.
SizeofSizeT == 1

\* The addresses malloc may return: any block not currently handed out.
\* (A request of 0 bytes gets a block of its own, as in the C libraries the
\* runtime is built against.)
MallocResults(h) == {a \in Addrs : h[a].st # "live"}

\* The heap after malloc(size) returned a.
Malloc(h, a, size) == [h EXCEPT ![a] = [st |-> "live", size |-> size]]

\* malloc under an allocator that can run out of memory: it may also return
\* nullptr, and then hands out nothing.
MallocResultsOrNull(h) == MallocResults(h) \cup {NULL}
MallocOrNull(h, a, size) == IF a = NULL THEN h ELSE Malloc(h, a, size)

\* A pointer that may be passed to free without undefined behaviour.
Freeable(h, p) == p = NULL \/ h[p].st = "live"

\* Faulty variant of Free: the block is not given back.
FreeKeepsBlock(h, p) == h

\* The heap after free(p): free(nullptr) does nothing.
Free(h, p) == IF p = NULL THEN h ELSE [h EXCEPT ![p].st = "freed"]

\* A pointer that may be dereferenced.
Dereferenceable(h, p) == p # NULL /\ h[p].st = "live"

(***************************************************************************)
(* size_t arithmetic.                                                      *)
(***************************************************************************)
\* Faulty variants of Increment and Decrement: the value stops at the end of
\* the range instead of wrapping.
IncrementSaturating(w) == IF w = Modulus - 1 THEN w ELSE w + 1
DecrementSaturating(w) == IF w = 0 THEN 0 ELSE w - 1

\* Faulty variant of Increment: adds 2.
IncrementTwice(w) == (w + 2) % Modulus

Increment(w) == (w + 1) % Modulus

\* Faulty variant of Decrement: the value is not changed.
DecrementNothing(w) == w

Decrement(w) == (w + Modulus - 1) % Modulus

(***************************************************************************)
(* Records of external calls.                                              *)
(***************************************************************************)
\* live: whether the block the call is about was live when the call was made
\* (for malloc: after it returned).
Event(kind, ptr, live) == [ev |-> kind, ptr |-> ptr, live |-> live]


(***************************************************************************)
(* The record and the counter cell.                                        *)
(***************************************************************************)
\* The record after azn_gc_object_init's three assignments.
InitObject(value, destructor, count) ==
    [value |-> value, destructor |-> destructor, count |-> count]

\* Faulty variant of StoreInitialCount: the count starts at 2.
StoreInitialCountTwo(m, c) == [m EXCEPT ![c] = 2]

\* *(object->count) = 1;
StoreInitialCount(m, c) == [m EXCEPT ![c] = 1]

\* Faulty variants of StoreIncrement: the sum is not written back; the
\* increment is applied twice.
StoreIncrementLost(m, c) == m
StoreIncrementTwice(m, c) == [m EXCEPT ![c] = Increment(Increment(m[c]))]

\* *(object->count) += 1;
StoreIncrement(m, c) == [m EXCEPT ![c] = Increment(m[c])]

\* Faulty variant of StoreDecrement: the decrement is applied twice.
StoreDecrementTwice(m, c) == [m EXCEPT ![c] = Decrement(Decrement(m[c]))]

\* *(object->count) -= 1;
StoreDecrement(m, c) == [m EXCEPT ![c] = Decrement(m[c])]

\* Faulty variant of CountIsZero: tests for <= 1.
CountIsAtMostOne(m, c) == m[c] <= 1

\* if (*(object->count) == 0)
CountIsZero(m, c) == m[c] = 0

\* Faulty variant of HasDestructor: the null test is missing.
HasDestructorUnchecked(o) == TRUE

\* if (object->destructor != nullptr)
HasDestructor(o) == o.destructor # NULL

\* The steps of release's zero branch work on what the call has done so
\* far: s.heap, s.events (the external calls made, in order), and the
\* running totals s.destructorCalls and s.frees.

\* if (object->destructor != nullptr) { object->destructor(object->value); }
CallDestructor(s, o) ==
    IF HasDestructor(o)
      THEN [s EXCEPT
              !.events = Append(@, Event("destructor", o.value,
                                         Dereferenceable(s.heap, o.value))),
              !.destructorCalls = @ + 1]
      ELSE s

\* Faulty variant of FreeValue: the counter block is freed as well.
FreeValueAndCount(s, o) ==
    [s EXCEPT
       !.events = @ \o <<Event("free", o.value, Freeable(s.heap, o.value)),
                         Event("free", o.count, Freeable(s.heap, o.count))>>,
       !.heap = Free(Free(@, o.value), o.count),
       !.frees = @ + 2]

\* free(object->value);
FreeValue(s, o) ==
    [s EXCEPT
       !.events = Append(@, Event("free", o.value, Freeable(s.heap, o.value))),
       !.heap = Free(@, o.value),
       !.frees = @ + 1]

\* Faulty variant of Finalize: the payload is freed before the destructor
\* runs.
FinalizeFreeFirst(s, o) == CallDestructor(FreeValue(s, o), o)

\* The body of `if (*(object->count) == 0) { ... }`.
Finalize(s, o) == FreeValue(CallDestructor(s, o), o)

\* Faulty variant of RecordAfterRelease: the payload handle is reset.
RecordAfterReleaseNulled(o) == [o EXCEPT !.value = NULL]

\* The record when release returns: release reads object->count,
\* object->destructor and object->value and assigns to none of them.
RecordAfterRelease(o) == o

\* A free call of the sequence was made on a block already given back.
DoubleFree(evs) == \E i \in 1..Len(evs) : evs[i].ev = "free" /\ ~evs[i].live

\* The caller's side of the contract: a retain or a release is allowed only
\* while an owner is left, that is while fewer releases than owners
\* (1 from init plus 1 per retain) have been issued.
OwnerLeft == releases < 1 + retains

(***************************************************************************)
(* Initial state: the record is uninitialized storage (any contents), the  *)
(* heap has handed out nothing, memory holds an arbitrary value.           *)
(***************************************************************************)
Init ==
    /\ object \in [value : Pointers, destructor : Destructors, count : Pointers]
    /\ heap = [a \in Addrs |-> [st |-> "unallocated", size |-> 0]]
    /\ \E g \in Words : mem = [a \in Addrs |-> g]
    /\ pc = "uninit"
    /\ retains = 0
    /\ releases = 0
    /\ destructorCalls = 0
    /\ mallocs = 0
    /\ frees = 0
    /\ lastOp = "none"
    /\ events = <<>>
    /\ valid = TRUE
    /\ tpc = [t \in Threads |-> "idle"]
    /\ reg = [t \in Threads |-> 0]
    /\ lost = FALSE

(***************************************************************************)
(* void azn_gc_object_init(object, size, destructor)                       *)
(***************************************************************************)
\* The call under an allocator whose malloc can fail (canFail) or cannot.
\* Neither result of malloc is tested.  When the second malloc returned
\* nullptr, `*(object->count) = 1` writes through a null pointer and the
\* process is killed there, after the three assignments to the record.
InitCall(canFail) ==
    /\ pc = "uninit"
    /\ \E size \in Sizes, destructor \in Destructors :
       \E v \in (IF canFail THEN MallocResultsOrNull(heap) ELSE MallocResults(heap)) :
       LET h1 == MallocOrNull(heap, v, size) IN
       \E c \in (IF canFail THEN MallocResultsOrNull(h1) ELSE MallocResults(h1)) :
       LET h2 == MallocOrNull(h1, c, SizeofSizeT) IN
         /\ object' = InitObject(v, destructor, c)
         /\ heap' = h2
         /\ events' = <<Event("malloc", v, v # NULL), Event("malloc", c, c # NULL)>>
         /\ IF Dereferenceable(h2, c)
              THEN /\ mem' = StoreInitialCount(mem, c)
                   /\ pc' = "ready"
              ELSE /\ mem' = mem
                   /\ pc' = "aborted"
    /\ mallocs' = mallocs + 2
    /\ lastOp' = "init"
    /\ UNCHANGED <<retains, releases, destructorCalls, frees, valid>>
    /\ UNCHANGED threadVars

azn_gc_object_init == InitCall(FALSE)

(***************************************************************************)
(* void azn_gc_object_retain(object)                                       *)
(***************************************************************************)
\* The call, for a caller that makes at most `limit` retain calls.
Retain(limit) ==
    /\ pc = "ready"
    /\ retains < limit
    /\ mem' = StoreIncrement(mem, object.count)
    /\ retains' = retains + 1
    /\ valid' = (valid /\ OwnerLeft)
    /\ lastOp' = "retain"
    /\ events' = <<>>
    /\ UNCHANGED <<object, heap, pc, releases, destructorCalls, mallocs, frees>>
    /\ UNCHANGED threadVars

azn_gc_object_retain == Retain(MaxRetains)

(***************************************************************************)
(* void azn_gc_object_release(object)                                      *)
(*                                                                         *)
(* free on a block that was already given back is undefined behaviour:     *)
(* the allocator either aborts the process or returns with the block still *)
(* not handed out.                                                         *)
(***************************************************************************)
azn_gc_object_release ==
    /\ pc = "ready"
    /\ releases < MaxReleases
    /\ LET m1 == StoreDecrement(mem, object.count)
           s0 == [heap |-> heap, events |-> <<>>,
                  destructorCalls |-> destructorCalls, frees |-> frees]
           s1 == IF CountIsZero(m1, object.count) THEN Finalize(s0, object) ELSE s0
       IN /\ mem' = m1
          /\ heap' = s1.heap
          /\ events' = s1.events
          /\ destructorCalls' = s1.destructorCalls
          /\ frees' = s1.frees
          /\ IF DoubleFree(s1.events)
               THEN pc' \in {"ready", "aborted"}
               ELSE pc' = "ready"
    /\ releases' = releases + 1
    /\ valid' = (valid /\ OwnerLeft)
    /\ lastOp' = "release"
    /\ object' = RecordAfterRelease(object)
    /\ UNCHANGED <<retains, mallocs>>
    /\ UNCHANGED threadVars

Next ==
    \/ azn_gc_object_init
    \/ azn_gc_object_retain
    \/ azn_gc_object_release

Spec == Init /\ [][Next]_vars

(***************************************************************************)
(* State descriptions used by the properties.                              *)
(***************************************************************************)
TypeOK ==
    /\ object \in [value : Pointers, destructor : Destructors, count : Pointers]
    /\ heap \in [Addrs -> [st : BlockStates, size : Nat]]
    /\ mem \in [Addrs -> Words]
    /\ pc \in {"uninit", "ready", "aborted"}
    /\ retains \in Nat
    /\ releases \in Nat
    /\ destructorCalls \in Nat
    /\ mallocs \in Nat
    /\ frees \in Nat
    /\ lastOp \in {"none", "init", "retain", "release"}
    /\ valid \in BOOLEAN
    /\ tpc \in [Threads -> {"idle", "retain_store", "release_store",
                            "release_test", "release_destructor", "release_free"}]
    /\ reg \in [Threads -> Words]
    /\ lost \in BOOLEAN

Inited == pc # "uninit"
\* The reference count, *(object->count).
Count == mem[object.count]
PayloadLive == Dereferenceable(heap, object.value)
PayloadFreed == object.value # NULL /\ heap[object.value].st = "freed"
CounterLive == Dereferenceable(heap, object.count)
\* Number of owners: the caller of init and one per retain.
Owners == 1 + retains
\* The events of the latest call, by kind.
EventKinds == [i \in 1..Len(events) |-> events[i].ev]
Did(kind) == \E i \in 1..Len(events) : events[i].ev = kind


\* The two lifecycle states of the specification.
Alive == Inited /\ Count > 0 /\ PayloadLive
Finalized == Inited /\ Count = 0 /\ PayloadFreed
\* The latest call was the release that ran the zero branch.
FinalizingRelease == lastOp = "release" /\ Did("free")
\* The size init asked for the payload.
PayloadSize == heap[object.value].size
\* What the zero branch does on a live payload, by the record's destructor.
ExpectedFinalizeKinds ==
    IF HasDestructor(object) THEN <<"destructor", "free">> ELSE <<"free">>

(***************************************************************************)
(* Properties.  All of them are about a single caller; those about the     *)
(* documented contract are stated for runs in which every call so far      *)
(* respected it (valid).                                                   *)
(***************************************************************************)

\* C1: whatever the payload size (0 included) and the destructor (nullptr
\* included), and whatever the record held before, init leaves the count at
\* exactly 1 with both blocks live; and the state reached by init followed by
\* one release is finalized: the count is 0, the destructor ran once if there
\* is one, and the payload was freed by that release.
C1_InitThenOneRelease ==
    /\ lastOp = "init" => Count = 1 /\ PayloadLive /\ CounterLive
    /\ (Inited /\ retains = 0 /\ releases = 1) =>
          /\ Finalized
          /\ FinalizingRelease
          /\ destructorCalls = (IF HasDestructor(object) THEN 1 ELSE 0)
          /\ frees = 1

C1_Witness ==
    /\ Inited /\ retains = 0 /\ releases = 1
    /\ Finalized
    /\ PayloadSize = 0
    /\ ~HasDestructor(object)

\* C2: in a run of init, n retains and n+1 releases (all within the
\* contract), once the last release has returned the destructor has run
\* exactly once, and it ran inside that last release; before the last
\* release it had not run.
C2_BalancedRunFinalizesOnce ==
    /\ (valid /\ Inited /\ HasDestructor(object) /\ releases = retains + 1) =>
          /\ destructorCalls = 1
          /\ lastOp = "release"
          /\ Did("destructor")
    /\ (valid /\ Inited /\ releases <= retains) => destructorCalls = 0

C2_Witness ==
    /\ valid /\ retains = 2 /\ releases = 3
    /\ HasDestructor(object)
    /\ destructorCalls = 1
    /\ Did("destructor")

\* C3: while fewer releases than owners (1 + retains) have been issued, the
\* destructor has not been invoked, free has not been called and the payload
\* is live.
C3_NoPrematureFinalization ==
    (valid /\ Inited /\ releases < Owners) =>
        /\ destructorCalls = 0
        /\ frees = 0
        /\ PayloadLive
        /\ ~Did("destructor") /\ ~Did("free")

C3_Witness ==
    /\ valid /\ retains = 3 /\ releases = 3
    /\ lastOp = "release"
    /\ HasDestructor(object)
    /\ destructorCalls = 0
    /\ PayloadLive

\* C4: in a run that respects the retain/release balance the destructor is
\* invoked at most once and free is called at most once.
C4_AtMostOnce ==
    valid => /\ destructorCalls <= 1
             /\ frees <= 1
             /\ ~DoubleFree(events)

C4_Witness ==
    /\ valid /\ retains >= 1 /\ releases = retains + 1
    /\ destructorCalls = 1
    /\ frees = 1

\* C5: in the release that takes the count to 0 the destructor (if any) is
\* called first, on the payload, while the payload is still live; free is
\* called after it, on the same pointer, and only then is the block given
\* back.
C5_DestructorBeforeFree ==
    (valid /\ FinalizingRelease) =>
        /\ EventKinds = ExpectedFinalizeKinds
        /\ \A i \in 1..Len(events) :
              events[i].ptr = object.value /\ events[i].live
        /\ PayloadFreed

C5_Witness ==
    /\ valid /\ FinalizingRelease
    /\ HasDestructor(object)
    /\ Len(events) = 2
    /\ events[1].ev = "destructor" /\ events[1].live
    /\ events[2].ev = "free"

\* C6: between calls of a run that respects the contract, the count is the
\* number of owners that have not released (so it is never negative), the
\* payload is live exactly when the count is positive, and once the count
\* is 0 the payload has been given back.
C6_LiveIffPositive ==
    (valid /\ Inited) =>
        /\ Count >= 0
        /\ Count = Owners - releases
        /\ PayloadLive <=> Count > 0
        /\ Count = 0 => PayloadFreed

C6_Witness ==
    /\ valid /\ Inited
    /\ Count = 0
    /\ PayloadFreed
    /\ retains = 2


\* The blocks currently handed out by the allocator.
LiveBlocks == {a \in Addrs : heap[a].st = "live"}
\* The step is a call of azn_gc_object_retain / azn_gc_object_release.
RetainStep == retains' = retains + 1
ReleaseStep == releases' = releases + 1

C8_NullDestructor ==
    (valid /\ Inited /\ object.destructor = NULL) =>
        /\ destructorCalls = 0
        /\ ~Did("destructor")
        /\ (lastOp = "release" /\ Count = 0) =>
              /\ EventKinds = <<"free">>
              /\ events[1].ptr = object.value
              /\ PayloadFreed
              /\ frees = 1

C8_Witness ==
    /\ valid /\ object.destructor = NULL
    /\ lastOp = "release" /\ Count = 0
    /\ PayloadSize = 0
    /\ PayloadFreed
    /\ retains = 1

\* C9: a retain call changes nothing but the counter cell: the record, the
\* heap and every other memory cell are as before, no destructor is invoked
\* and no allocator call is made; on an alive object the count goes up by
\* exactly 1.
C9_RetainOnlyIncrements ==
    [][ RetainStep =>
          /\ object' = object
          /\ heap' = heap
          /\ \A a \in Addrs \ {object.count} : mem'[a] = mem[a]
          /\ destructorCalls' = destructorCalls
          /\ mallocs' = mallocs
          /\ frees' = frees
          /\ events' = <<>>
          /\ pc' = pc
          /\ Alive => Count' = Count + 1
      ]_vars

C9_Witness ==
    /\ valid /\ lastOp = "retain"
    /\ retains = 2
    /\ Count = 3
    /\ PayloadLive

\* C10: init makes exactly two malloc calls, one for the payload and one for
\* the counter; release never frees the counter block: the only free call
\* is the one of the finalizing release, on the payload, so after
\* finalization the counter block is the one block still handed out.
C10_CounterBlockLeaked ==
    /\ Inited =>
          /\ mallocs = 2
          /\ CounterLive
          /\ object.count # object.value
    /\ \A i \in 1..Len(events) :
          events[i].ev = "free" => events[i].ptr = object.value
    /\ (valid /\ Inited) => frees = (IF Count = 0 THEN 1 ELSE 0)
    /\ (valid /\ Finalized) => LiveBlocks = {object.count}

C10_Witness ==
    /\ valid /\ Finalized
    /\ CounterLive
    /\ mallocs = 2 /\ frees = 1
    /\ LiveBlocks = {object.count}


(***************************************************************************)
(* Two threads calling retain and release on the same record with no       *)
(* synchronization.  The counter updates are plain loads and stores:       *)
(*   retain:   load *(object->count); store the loaded value + 1           *)
(*   release:  load *(object->count); store the loaded value - 1;          *)
(*             test *(object->count) == 0; destructor; free                *)
(* and the threads' steps interleave in any order.  The test of release    *)
(* reads the cell again, or uses the value the thread has just stored when *)
(* the compiler kept it in a register.  A call is counted in retains /     *)
(* releases when it starts.  The threads start once azn_gc_object_init has *)
(* returned: the payload and the counter are live blocks and the count is  *)
(* 1.                                                                      *)
(***************************************************************************)
\* The state in which azn_gc_object_init(object, MaxSize, destructor) has
\* just returned, malloc having handed out the first two addresses.
InitThreads ==
    /\ \E destructor \in {NULL, 1} : object = InitObject(1, destructor, 2)
    /\ heap = Malloc(Malloc([a \in Addrs |-> [st |-> "unallocated", size |-> 0]],
                            1, MaxSize), 2, SizeofSizeT)
    /\ mem = StoreInitialCount([a \in Addrs |-> 0], 2)
    /\ pc = "ready"
    /\ retains = 0
    /\ releases = 0
    /\ destructorCalls = 0
    /\ mallocs = 2
    /\ frees = 0
    /\ lastOp = "init"
    /\ events = <<Event("malloc", 1, TRUE), Event("malloc", 2, TRUE)>>
    /\ valid = TRUE
    /\ tpc = [t \in Threads |-> "idle"]
    /\ reg = [t \in Threads |-> 0]
    /\ lost = FALSE

Idle(t) == tpc[t] = "idle"
AllIdle == \A t \in Threads : Idle(t)
\* Retain calls that have started and not yet stored.
RetainsInFlight == Cardinality({t \in Threads : tpc[t] = "retain_store"})
\* The contract at the start of a call made while other calls may be running:
\* fewer releases were started than there are owners whose retain completed.
OwnerLeftThreads == releases < 1 + retains - RetainsInFlight

\* The load of *(object->count).
Load(m, c) == m[c]
\* Faulty variant of Store: the value never reaches memory.
StoreDropped(m, c, w) == m

\* The store of w to *(object->count).
Store(m, c, w) == [m EXCEPT ![c] = w]
\* The store overwrites a value written since the thread's load.
Overwrites(m, c, loaded) == m[c] # loaded
\* The values `*(object->count) == 0` may test after the thread stored
\* `stored`: the cell as it is now, or the value just stored.
TestedValues(m, c, stored) == {m[c], stored}
\* What the call has done so far, for the steps of the zero branch.
CallState ==
    [heap |-> heap, events |-> <<>>,
     destructorCalls |-> destructorCalls, frees |-> frees]

RetainLoad(t) ==
    /\ pc = "ready" /\ Idle(t)
    /\ retains < MaxRetains
    /\ reg' = [reg EXCEPT ![t] = Load(mem, object.count)]
    /\ tpc' = [tpc EXCEPT ![t] = "retain_store"]
    /\ retains' = retains + 1
    /\ valid' = (valid /\ OwnerLeftThreads)
    /\ UNCHANGED <<object, heap, mem, pc, releases, destructorCalls, mallocs,
                   frees, lastOp, events, lost>>

RetainStore(t) ==
    /\ pc = "ready" /\ tpc[t] = "retain_store"
    /\ mem' = Store(mem, object.count, Increment(reg[t]))
    /\ lost' = (lost \/ Overwrites(mem, object.count, reg[t]))
    /\ reg' = [reg EXCEPT ![t] = 0]
    /\ tpc' = [tpc EXCEPT ![t] = "idle"]
    /\ lastOp' = "retain"
    /\ events' = <<>>
    /\ UNCHANGED <<object, heap, pc, retains, releases, destructorCalls,
                   mallocs, frees, valid>>

ReleaseLoad(t) ==
    /\ pc = "ready" /\ Idle(t)
    /\ releases < MaxReleases
    /\ reg' = [reg EXCEPT ![t] = Load(mem, object.count)]
    /\ tpc' = [tpc EXCEPT ![t] = "release_store"]
    /\ releases' = releases + 1
    /\ valid' = (valid /\ OwnerLeftThreads)
    /\ UNCHANGED <<object, heap, mem, pc, retains, destructorCalls, mallocs,
                   frees, lastOp, events, lost>>

ReleaseStore(t) ==
    /\ pc = "ready" /\ tpc[t] = "release_store"
    /\ mem' = Store(mem, object.count, Decrement(reg[t]))
    /\ lost' = (lost \/ Overwrites(mem, object.count, reg[t]))
    /\ reg' = [reg EXCEPT ![t] = Decrement(reg[t])]
    /\ tpc' = [tpc EXCEPT ![t] = "release_test"]
    /\ UNCHANGED <<object, heap, pc, retains, releases, destructorCalls,
                   mallocs, frees, lastOp, events, valid>>

ReleaseTest(t) ==
    /\ pc = "ready" /\ tpc[t] = "release_test"
    /\ \E seen \in TestedValues(mem, object.count, reg[t]) :
         /\ reg' = [reg EXCEPT ![t] = 0]
         /\ IF CountIsZero(Store(mem, object.count, seen), object.count)
              THEN /\ tpc' = [tpc EXCEPT ![t] = "release_destructor"]
                   /\ UNCHANGED <<lastOp, events>>
              ELSE /\ tpc' = [tpc EXCEPT ![t] = "idle"]
                   /\ lastOp' = "release"
                   /\ events' = <<>>
    /\ UNCHANGED <<object, heap, mem, pc, retains, releases, destructorCalls,
                   mallocs, frees, valid, lost>>

ReleaseDestructor(t) ==
    /\ pc = "ready" /\ tpc[t] = "release_destructor"
    /\ LET s1 == CallDestructor(CallState, object)
       IN /\ destructorCalls' = s1.destructorCalls
          /\ events' = s1.events
    /\ tpc' = [tpc EXCEPT ![t] = "release_free"]
    /\ UNCHANGED <<object, heap, mem, pc, retains, releases, mallocs, frees,
                   lastOp, valid, reg, lost>>

ReleaseFree(t) ==
    /\ pc = "ready" /\ tpc[t] = "release_free"
    /\ LET s1 == FreeValue(CallState, object)
       IN /\ heap' = s1.heap
          /\ frees' = s1.frees
          /\ events' = s1.events
          /\ IF DoubleFree(s1.events)
               THEN pc' \in {"ready", "aborted"}
               ELSE pc' = "ready"
    /\ tpc' = [tpc EXCEPT ![t] = "idle"]
    /\ lastOp' = "release"
    /\ UNCHANGED <<object, mem, retains, releases, destructorCalls, mallocs,
                   valid, reg, lost>>

NextThreads ==
    \/ \E t \in Threads : RetainLoad(t)
    \/ \E t \in Threads : RetainStore(t)
    \/ \E t \in Threads : ReleaseLoad(t)
    \/ \E t \in Threads : ReleaseStore(t)
    \/ \E t \in Threads : ReleaseTest(t)
    \/ \E t \in Threads : ReleaseDestructor(t)
    \/ \E t \in Threads : ReleaseFree(t)

SpecThreads == InitThreads /\ [][NextThreads]_vars


(***************************************************************************)
(* Properties of the unsynchronized threads.                               *)
(***************************************************************************)
\* Owners whose retain has completed (or the caller of init) and that have
\* not started their release.
OwnersNotReleased == 1 + retains - RetainsInFlight - releases

\* C11: the counter update is a load followed by a store, so a store can
\* overwrite another thread's update (a lost update).  While no update was
\* lost and the callers keep the contract, the count at rest is the number
\* of owners that have not released, no payload is freed while such an
\* owner exists, and an object all of whose owners have released has been
\* freed; a lost update is what breaks each of these (C11_Witness: payload
\* freed under an owner; C11_LeakWitness: never finalized).
C11_WrongCountOnlyAfterLostUpdate ==
    (valid /\ ~lost) =>
        /\ AllIdle => Count = OwnersNotReleased
        /\ frees > 0 => OwnersNotReleased = 0
        /\ (AllIdle /\ OwnersNotReleased = 0) => PayloadFreed

\* Premature finalization: an update was lost, every call has returned and
\* kept the contract, the payload has been freed, and an owner that has not
\* released still exists.
C11_Witness ==
    /\ valid /\ lost /\ AllIdle
    /\ PayloadFreed
    /\ frees = 1
    /\ retains = 2 /\ releases = 2
    /\ Count = 0
    /\ OwnersNotReleased > 0

\* Permanent leak: an update was lost, every owner has released (so no
\* further call is allowed), and the payload is still allocated.
C11_LeakWitness ==
    /\ valid /\ lost /\ AllIdle
    /\ OwnersNotReleased = 0
    /\ Count > 0
    /\ PayloadLive
    /\ frees = 0


(***************************************************************************)
(* One caller that keeps the contract, with the calls taken step by step.  *)
(* The caller populates the record, then retains and releases only while   *)
(* an owner is left.  Every function is straight-line code, so a call that *)
(* has started keeps taking steps (weak fairness on each step), the        *)
(* destructor being taken to return; and every owner issues its release    *)
(* (weak fairness on starting a release).                                  *)
(***************************************************************************)
Owner == "t1"
OwnerRetain == OwnerLeftThreads /\ RetainLoad(Owner)
OwnerRelease == OwnerLeftThreads /\ ReleaseLoad(Owner)
\* The steps inside a call that has started.
OwnerStep ==
    \/ RetainStore(Owner)
    \/ ReleaseStore(Owner)
    \/ ReleaseTest(Owner)
    \/ ReleaseDestructor(Owner)
    \/ ReleaseFree(Owner)

NextOwner ==
    \/ azn_gc_object_init
    \/ OwnerRetain
    \/ OwnerRelease
    \/ OwnerStep

\* The record and the memory start zero-filled (one of the initial states).
InitZeroed ==
    /\ Init
    /\ object = InitObject(NULL, NULL, NULL)
    /\ mem = [a \in Addrs |-> 0]

SpecOwner ==
    /\ InitZeroed
    /\ [][NextOwner]_vars
    /\ WF_vars(azn_gc_object_init)
    /\ WF_vars(OwnerStep)
    /\ WF_vars(OwnerRelease)

\* C12: every call that has started returns, and once every owner has
\* issued its release the object is finalized (count 0, payload freed) and
\* stays finalized.
C12_EventuallyFinalized ==
    /\ [](~Idle(Owner) => <>Idle(Owner))
    /\ <>Inited
    /\ <>[](Finalized /\ Idle(Owner) /\ OwnersNotReleased = 0)

C12_Witness ==
    /\ Finalized /\ Idle(Owner)
    /\ valid
    /\ retains = 2 /\ releases = 3
    /\ frees = 1


(***************************************************************************)
(* The counter at the ends of its range.                                   *)
(***************************************************************************)
\* The largest size_t.
MaxWord == Modulus - 1
\* The step ran release's zero branch (a destructor call or a free).
FinalizeStep == frees' # frees \/ destructorCalls' # destructorCalls

\* C13: a release on an initialized object whose count is 0 stores
\* 2^w - 1 in the counter, makes no destructor call and no free call,
\* leaves the heap as it is and returns normally.
C13_OverReleaseWraps ==
    [][ (ReleaseStep /\ Count = 0) =>
          /\ Count' = MaxWord
          /\ events' = <<>>
          /\ ~FinalizeStep
          /\ heap' = heap
          /\ object' = object
          /\ pc' = "ready"
      ]_vars

C13_Witness ==
    /\ lastOp = "release"
    /\ retains = 0 /\ releases = 2
    /\ Count = MaxWord
    /\ events = <<>>
    /\ frees = 1
    /\ ~valid

(***************************************************************************)
(* A caller that retains until the counter wraps: as the sequential        *)
(* specification, with up to 2^w retain calls.                             *)
(***************************************************************************)
RetainUpToWrap == Retain(Modulus)

NextWrap ==
    \/ azn_gc_object_init
    \/ RetainUpToWrap
    \/ azn_gc_object_release

SpecWrap == Init /\ [][NextWrap]_vars

\* C17: a retain at count 2^w - 1 stores 0, with no destructor call, no free
\* and the heap unchanged, so that the count is 0 while the payload is
\* still allocated; the zero branch runs only in a release that stores 0.
C17_RetainWraps ==
    [][ /\ (RetainStep /\ Count = MaxWord) =>
              /\ Count' = 0
              /\ events' = <<>>
              /\ ~FinalizeStep
              /\ heap' = heap
              /\ pc' = "ready"
        /\ FinalizeStep => (ReleaseStep /\ Count' = 0)
      ]_vars

C17_Witness ==
    /\ lastOp = "retain"
    /\ retains = MaxWord /\ releases = 0
    /\ Count = 0
    /\ PayloadLive
    /\ ~Finalized
    /\ frees = 0 /\ destructorCalls = 0


(***************************************************************************)
(* Double finalization by two threads.                                     *)
(***************************************************************************)
\* The thread is inside release's zero branch.
Finalizing(t) == tpc[t] \in {"release_destructor", "release_free"}

\* C14: with no update lost and the contract kept, a thread enters the zero
\* branch only when the count is 0 and no owner is left, and then the
\* count stays 0; but the test comes after the store and reads the cell
\* again, so both threads that released the last two references can find
\* the 0 the later store wrote: the zero branch can run once per thread
\* (C14_Witness: the destructor invoked twice, free called twice, the
\* second free on the block already given back), and never more often.
C14_ZeroBranchPerThread ==
    (valid /\ ~lost) =>
        /\ \A t \in Threads : Finalizing(t) => (Count = 0 /\ OwnersNotReleased = 0)
        /\ frees > 0 => (Count = 0 /\ OwnersNotReleased = 0)
        /\ frees <= Cardinality(Threads)
        /\ destructorCalls <= Cardinality(Threads)

C14_Witness ==
    /\ valid /\ ~lost /\ AllIdle
    /\ retains = 1 /\ releases = 2
    /\ Count = 0
    /\ destructorCalls = 2
    /\ frees = 2
    /\ DoubleFree(events)


(***************************************************************************)
(* A destructor that calls azn_gc_object_retain on the object being        *)
(* released.  The destructor is the caller's function and release calls it *)
(* between the zero test and free; the nested retain runs to completion    *)
(* inside that call.  One caller, calls taken step by step.                *)
(***************************************************************************)
DestructorRetains(t) ==
    /\ pc = "ready" /\ tpc[t] = "release_destructor"
    /\ HasDestructor(object)
    /\ retains < MaxRetains
    /\ LET s1 == CallDestructor(CallState, object)
       IN /\ destructorCalls' = s1.destructorCalls
          /\ events' = s1.events
    /\ mem' = StoreIncrement(mem, object.count)
    /\ retains' = retains + 1
    /\ valid' = (valid /\ OwnerLeftThreads)
    /\ tpc' = [tpc EXCEPT ![t] = "release_free"]
    /\ UNCHANGED <<object, heap, pc, releases, mallocs, frees, lastOp, reg, lost>>

NextReentrant ==
    \/ azn_gc_object_init
    \/ RetainLoad(Owner)
    \/ RetainStore(Owner)
    \/ ReleaseLoad(Owner)
    \/ ReleaseStore(Owner)
    \/ ReleaseTest(Owner)
    \/ ReleaseDestructor(Owner)
    \/ DestructorRetains(Owner)
    \/ ReleaseFree(Owner)

SpecReentrant == Init /\ [][NextReentrant]_vars

\* The step in which the destructor is called / in which free is called.
DestructorStep == tpc[Owner] = "release_destructor" /\ tpc'[Owner] = "release_free"
FreeStep == tpc[Owner] = "release_free" /\ tpc'[Owner] = "idle"

\* C15: when release calls the destructor the count is already 0; and the
\* free that follows is made whatever the count has become, without
\* testing it again: it leaves the count as it is and the payload given
\* back.  So when the destructor retains the object, release returns with
\* the count above 0 and the payload deallocated.
C15_FreeAfterDestructorUnconditional ==
    [][ /\ DestructorStep => Count = 0
        /\ FreeStep =>
             /\ frees' = frees + 1
             /\ events'[1] = Event("free", object.value, PayloadLive)
             /\ ~Dereferenceable(heap', object.value)
             /\ Count' = Count
      ]_vars

C15_Witness ==
    /\ Idle(Owner)
    /\ lastOp = "release" /\ Did("free")
    /\ retains = 1 /\ releases = 1
    /\ destructorCalls = 1
    /\ frees = 1
    /\ Count = 1
    /\ PayloadFreed


(***************************************************************************)
(* The sequential specification under an allocator that can fail.          *)
(***************************************************************************)
InitOutOfMemory == InitCall(TRUE)

NextOutOfMemory ==
    \/ InitOutOfMemory
    \/ azn_gc_object_retain
    \/ azn_gc_object_release

SpecOutOfMemory == Init /\ [][NextOutOfMemory]_vars

\* What the two malloc calls of init returned.
PayloadMalloc == events[1].ptr
CounterMalloc == events[2].ptr

\* C16: init makes both malloc calls and no free call whatever malloc
\* returns, and stores both results in the record untested.  When the
\* counter was allocated init returns normally with count 1, also when the
\* payload handle is null (not dereferenceable).  When the counter
\* allocation failed the store of the count goes through a null pointer:
\* the process is killed, and a payload block that was allocated stays
\* allocated.
C16_InitIgnoresMallocFailure ==
    lastOp = "init" =>
        /\ mallocs = 2 /\ frees = 0
        /\ object.value = PayloadMalloc
        /\ object.count = CounterMalloc
        /\ CounterMalloc # NULL =>
              /\ pc = "ready"
              /\ Count = 1
              /\ PayloadMalloc = NULL => ~PayloadLive
        /\ CounterMalloc = NULL =>
              /\ pc = "aborted"
              /\ PayloadMalloc # NULL => PayloadLive

\* The payload allocation failed, the counter allocation succeeded.
C16_Witness ==
    /\ lastOp = "init"
    /\ pc = "ready"
    /\ object.value = NULL
    /\ ~PayloadLive
    /\ Count = 1

\* The counter allocation failed after the payload was allocated.
C16_CrashWitness ==
    /\ lastOp = "init"
    /\ pc = "aborted"
    /\ object.count = NULL
    /\ PayloadLive
    /\ frees = 0


(***************************************************************************)
(* The record across release.                                              *)
(***************************************************************************)
\* The payload handle points at a block that was given back.
Dangling == object.value # NULL /\ heap[object.value].st = "freed"

\* C18: a release, the finalizing one included and whether or not the
\* caller kept the contract, leaves the three fields of the record as they
\* were; so once the payload has been freed the record still holds the
\* payload's address, now of a freed block, and not nullptr.
C18_ReleaseLeavesRecord ==
    [][ ReleaseStep =>
          /\ object'.value = object.value
          /\ object'.destructor = object.destructor
          /\ object'.count = object.count
          /\ FinalizeStep => Dangling'
      ]_vars

C18_Witness ==
    /\ valid /\ Finalized
    /\ lastOp = "release"
    /\ retains = 1 /\ releases = 2
    /\ Dangling

=============================================================================
